---- MODULE Spec2Model ----
(***************************************************************************)
(* SecureChain: the local blockchain server (local-backend/index.js) that  *)
(* watches the activityLogs collection and appends one hash-linked block   *)
(* per added activity to the blockchain collection, together with the UI   *)
(* handlers that write the activity documents.                             *)
(* Further parts: the --clear run of the script, the chain verifier of   *)
(* the design, the dashboard's file list and blockchain viewer, and the    *)
(* theme toggle; each has a specification of its own.                      *)
(*                                                                         *)
(* A collection is a sequence of documents [id, data] kept in the order    *)
(* its query returns them: blockchain by (timestamp, document name),       *)
(* activityLogs by document name.  Document names are Firestore auto-IDs:  *)
(* the place of a new block among the blocks it ties with is arbitrary.    *)
(* The field id is the creation ordinal and identifies the document; the   *)
(* activity documents are taken to be named in the order of creation.      *)
(*                                                                         *)
(* A string produced by JSON.stringify or by SHA256(...).toString() is a   *)
(* sequence of string tokens.  SHA256 is collision free: the digest of s   *)
(* is the token "sha256" followed by s, which differs from the one-token   *)
(* sentinel "0".                                                           *)
(***************************************************************************)
EXTENDS Integers, Sequences, FiniteSets, TLC

\* Bounds of the model.
MaxWrites == 2      \* writes to the activityLogs collection
MaxClock == 1       \* last millisecond the wall clock reaches
MaxPages == 2       \* full pages a collection holds when a --clear run starts
MaxRuns == 2        \* --clear runs
MaxChain == 3       \* blocks of a chain given to the verifier
MaxLog == 3         \* activity documents the dashboard derives its list from
MaxClicks == 6      \* clicks on the theme toggle

Users == {"u1"}
Files == {"a.txt"}
Renamed == "b.txt"
UPLOAD == "UPLOAD_FILE_UPLOADCARE"
DELETE == "DELETE_FILE"

VARIABLES
    now,            \* the wall clock: Date.now() and new Date()
    activityLogs,   \* collection "activityLogs"
    blockchain,     \* collection "blockchain"
    created,        \* number of activity documents ever written
    edits,          \* number of modifications and removals so far
    sub,            \* the watcher's subscription: "none", "listening", "error"
    existing,       \* ids of the activity documents present when it subscribed
    lastSnapshot,   \* the listener's previous query snapshot
    tasks,          \* the createNewBlock invocations, in the order they started
    errors,         \* number of console.error calls of createNewBlock
    clr,            \* the clearCollection invocations of a --clear run
    exitCode,       \* <<>> while the process runs, then <<code>>
    runs,           \* number of --clear runs started
    tampered,       \* <<>>, or <<[index, field]>> of the block field altered
    result,         \* <<>>, or <<r>> for the last result r of verify
    blockchainState, \* the dashboard's state blockchain, the viewer's chain
    theme,          \* <<>>, or <<t>> for the state theme of ThemeToggle
    localStorage,   \* <<>>, or <<v>> for the entry "theme"
    dataTheme,      \* <<>>, or <<v>> for the document's data-theme
    effect,         \* the effect of ThemeToggle has yet to run
    clicks          \* number of clicks on the toggle

\* What the watcher never touches.
otherVars == <<clr, exitCode, runs, tampered, result>>

\* The state of the web page.
uiVars == <<blockchainState, theme, localStorage, dataTheme, effect, clicks>>

vars == <<now, activityLogs, blockchain, created, edits, sub, existing,
          lastSnapshot, tasks, errors, clr, exitCode, runs, tampered, result,
          blockchainState, theme, localStorage, dataTheme, effect, clicks>>

----
\* Sequences.

InsertAt(s, p, x) == SubSeq(s, 1, p - 1) \o <<x>> \o SubSeq(s, p, Len(s))

RemoveAt(s, p) == SubSeq(s, 1, p - 1) \o SubSeq(s, p + 1, Len(s))

Ids(coll) == {coll[i].id : i \in DOMAIN coll}

DocOf(coll, id) == coll[CHOOSE i \in DOMAIN coll : coll[i].id = id]

----
\* Hashing: crypto.SHA256(JSON.stringify(newBlock)).toString()

Sentinel == <<"0">>

stringifyActivity(a) ==
    <<"userId", a.userId, "userEmail", a.userEmail, "action", a.action,
      "fileName", a.fileName>>
    \o (IF "fileURL" \in DOMAIN a THEN <<"fileURL", a.fileURL>> ELSE <<>>)
    \o <<"timestamp", ToString(a.timestamp)>>

\* JSON.stringify serialises the own properties of the object in insertion
\* order: timestamp, activity, previousHash, and hash once it is assigned.
JSONstringify(b) ==
    <<"timestamp", ToString(b.timestamp), "activity">>
    \o stringifyActivity(b.activity)
    \o <<"previousHash">> \o b.previousHash
    \o (IF "hash" \in DOMAIN b THEN <<"hash">> \o b.hash ELSE <<>>)

SHA256(s) == <<"sha256">> \o s

\* A faulty variant: the digest also covers how many linkings have taken
\* their block before this one.
newBlock_counted(timestamp, newActivityData, previousHash) ==
    LET blk == [timestamp |-> timestamp, activity |-> newActivityData,
                previousHash |-> previousHash]
        earlier == Cardinality({i \in DOMAIN tasks :
                                  tasks[i].pc \in {"adding", "done"}})
    IN  [timestamp |-> timestamp, activity |-> newActivityData,
         previousHash |-> previousHash,
         hash |-> SHA256(JSONstringify(blk) \o <<ToString(earlier)>>)]

\* A faulty variant: the hash is taken before previousHash is linked.
newBlock_hashBeforeLink(timestamp, newActivityData, previousHash) ==
    LET blk == [timestamp |-> timestamp, activity |-> newActivityData,
                previousHash |-> Sentinel]
    IN  [timestamp |-> timestamp, activity |-> newActivityData,
         previousHash |-> previousHash, hash |-> SHA256(JSONstringify(blk))]

newBlock(timestamp, newActivityData, previousHash) ==
    LET blk == [timestamp |-> timestamp, activity |-> newActivityData,
                previousHash |-> previousHash]
    IN  [timestamp |-> blk.timestamp, activity |-> blk.activity,
         previousHash |-> blk.previousHash, hash |-> SHA256(JSONstringify(blk))]

----
\* The blockchain collection.

\* blockchainRef.orderBy("timestamp", "desc").limit(1).get(): the documents
\* of the result, none or one.
lastBlockQuery(chain) ==
    IF chain = <<>> THEN <<>> ELSE <<chain[Len(chain)]>>

\* A faulty variant: the hash of the last block is never taken over.
previousHashOf_unset(docs) == Sentinel

previousHashOf(docs) ==
    IF docs # <<>> THEN docs[1].data.hash ELSE Sentinel

\* The places a new block with this timestamp may take in the collection's
\* (timestamp, name) order.
AddPositions(chain, timestamp) ==
    {p \in 1..(Len(chain) + 1) :
        /\ \A i \in 1..(p - 1) : chain[i].data.timestamp <= timestamp
        /\ \A i \in p..Len(chain) : chain[i].data.timestamp >= timestamp}

\* A faulty variant: the new block is written over the last one.
add_overwrite(chain, id, data, p) ==
    IF chain = <<>> THEN <<[id |-> id, data |-> data]>>
    ELSE [chain EXCEPT ![Len(chain)] = [id |-> id, data |-> data]]

\* A faulty variant: a conditional append, refused when the tip has moved.
add_ifTip(chain, id, data, p) ==
    IF data.previousHash = previousHashOf(lastBlockQuery(chain))
    THEN InsertAt(chain, p, [id |-> id, data |-> data])
    ELSE chain

\* blockchainRef.add(newBlock)
add(chain, id, data, p) == InsertAt(chain, p, [id |-> id, data |-> data])

----
\* The UI: the derived file list and the handlers that log an activity.

getFileType(fileName) ==
    CASE fileName \in {"a.txt", "b.txt"} -> "doc"
      [] OTHER -> "generic"

RECURSIVE SortByTimestamp(_)
\* orderBy("timestamp", "asc") over a collection held in name order.
SortByTimestamp(coll) ==
    IF coll = <<>> THEN <<>>
    ELSE LET m == CHOOSE i \in DOMAIN coll :
                    \A j \in DOMAIN coll :
                        \/ coll[i].data.timestamp < coll[j].data.timestamp
                        \/ /\ coll[i].data.timestamp = coll[j].data.timestamp
                           /\ i <= j
         IN  <<coll[m]>> \o SortByTimestamp(RemoveAt(coll, m))

\* log.action.startsWith("UPLOAD_FILE")
IsUpload(action) == action \in {"UPLOAD_FILE", UPLOAD}

SetFile(fileMap, entry) ==
    IF \E i \in DOMAIN fileMap : fileMap[i].name = entry.name
    THEN [i \in DOMAIN fileMap |->
            IF fileMap[i].name = entry.name THEN entry ELSE fileMap[i]]
    ELSE Append(fileMap, entry)

\* A faulty variant: a delete leaves the entry in place.
DeleteFile_keep(fileMap, name) == fileMap

\* fileMap.delete(log.fileName)
DeleteFile(fileMap, name) ==
    SelectSeq(fileMap, LAMBDA e : e.name # name)

RECURSIVE FileMapOf(_, _)
FileMapOf(allActivities, n) ==
    IF n = 0 THEN <<>>
    ELSE LET prev == FileMapOf(allActivities, n - 1)
             log == allActivities[n]
         IN  IF IsUpload(log.data.action)
             THEN SetFile(prev, [id |-> log.id, name |-> log.data.fileName,
                                 type |-> getFileType(log.data.fileName),
                                 timestamp |-> log.data.timestamp])
             ELSE IF log.data.action = DELETE
                  THEN DeleteFile(prev, log.data.fileName)
                  ELSE prev

\* setFiles(Array.from(fileMap.values()))
files(logs) ==
    LET allActivities == SortByTimestamp(logs)
    IN  FileMapOf(allActivities, Len(allActivities))

FileNames(logs) == {files(logs)[i].name : i \in DOMAIN files(logs)}

EmailOf(user) == CASE user = "u1" -> "u1@mail" [] OTHER -> "unknown"

uploadLog(user, fileName) ==
    [userId |-> user, userEmail |-> EmailOf(user), action |-> UPLOAD,
     fileName |-> fileName, fileURL |-> fileName, timestamp |-> now]

deleteLog(user, fileName) ==
    [userId |-> user, userEmail |-> EmailOf(user), action |-> DELETE,
     fileName |-> fileName, timestamp |-> now]

AddActivity(data) ==
    /\ created + edits < MaxWrites
    /\ activityLogs' = Append(activityLogs, [id |-> created + 1, data |-> data])
    /\ created' = created + 1
    /\ UNCHANGED <<now, blockchain, edits, sub, existing, lastSnapshot,
                   tasks, errors>>
    /\ UNCHANGED otherVars
    /\ UNCHANGED uiVars

handleUpload ==
    \E user \in Users, fileName \in Files :
        AddActivity(uploadLog(user, fileName))

handleDelete ==
    \E user \in Users, fileName \in FileNames(activityLogs) :
        AddActivity(deleteLog(user, fileName))

\* Writes to activityLogs made outside the UI handlers (the Firestore
\* console, the --clear run of this script): the feed reports them as
\* changes of type modified and removed.
ModifyActivity ==
    /\ created + edits < MaxWrites
    /\ \E i \in DOMAIN activityLogs :
         /\ activityLogs[i].data.fileName # Renamed
         /\ activityLogs' =
              [activityLogs EXCEPT ![i].data.fileName = Renamed]
    /\ edits' = edits + 1
    /\ UNCHANGED <<now, blockchain, created, sub, existing, lastSnapshot,
                   tasks, errors>>
    /\ UNCHANGED otherVars
    /\ UNCHANGED uiVars

RemoveActivity ==
    /\ created + edits < MaxWrites
    /\ \E i \in DOMAIN activityLogs :
         activityLogs' = RemoveAt(activityLogs, i)
    /\ edits' = edits + 1
    /\ UNCHANGED <<now, blockchain, created, sub, existing, lastSnapshot,
                   tasks, errors>>
    /\ UNCHANGED otherVars
    /\ UNCHANGED uiVars

Tick ==
    /\ now < MaxClock
    /\ now' = now + 1
    /\ UNCHANGED <<activityLogs, blockchain, created, edits, sub, existing,
                   lastSnapshot, tasks, errors>>
    /\ UNCHANGED otherVars
    /\ UNCHANGED uiVars

----
\* The watcher: watchActivityLog and createNewBlock.

\* querySnapshot.docChanges(): the removed documents, then the added and
\* the modified ones in the order of the query.
docChanges(old, new) ==
    LET removed == SelectSeq(old, LAMBDA d : d.id \notin Ids(new))
        changed == SelectSeq(new, LAMBDA d :
                       \/ d.id \notin Ids(old)
                       \/ DocOf(old, d.id).data # d.data)
    IN  [i \in 1..Len(removed) |-> [type |-> "removed", doc |-> removed[i]]]
        \o [i \in 1..Len(changed) |->
              [type |-> IF changed[i].id \in Ids(old) THEN "modified"
                        ELSE "added",
               doc |-> changed[i]]]

\* A faulty variant: every change starts a linking.
changeTriggers_any(change) == change.type \in {"added", "modified", "removed"}

\* if (change.type === 'added')
changeTriggers(change) == change.type = "added"

\* createNewBlock up to its first await: the query for the last block is
\* issued.  block is the local newBlock; seen (the number of blocks in the
\* collection at the read), tip (the id of the block the read returned, 0
\* for none) and blockId (the id of the block added, 0 for none) record what
\* the invocation read and wrote.
startTask(doc) ==
    [ev |-> doc.id, activity |-> doc.data, pc |-> "reading", block |-> <<>>,
     seen |-> 0, tip |-> 0, blockId |-> 0]

\* A faulty variant: the rejection is not caught and the invocation never
\* settles.
catchError_uncaught(task) == [task EXCEPT !.pc = "uncaught", !.block = <<>>]

\* A faulty variant: the failed linking is run again.
catchError_retry(task) == [task EXCEPT !.pc = "reading", !.block = <<>>]

\* catch (error) { console.error(...) }
catchError(task) ==
    [task EXCEPT !.pc = "failed", !.block = <<>>, !.seen = 0, !.tip = 0]

main ==
    /\ sub = "none"
    /\ sub' = "listening"
    /\ existing' = Ids(activityLogs)
    /\ UNCHANGED <<now, activityLogs, blockchain, created, edits,
                   lastSnapshot, tasks, errors>>
    /\ UNCHANGED otherVars
    /\ UNCHANGED uiVars

onSnapshot ==
    /\ sub = "listening"
    /\ LET changes == docChanges(lastSnapshot, activityLogs)
           added == SelectSeq(changes, changeTriggers)
       IN  /\ changes # <<>>
           /\ tasks' = tasks \o [i \in 1..Len(added) |->
                                   startTask(added[i].doc)]
    /\ lastSnapshot' = activityLogs
    /\ UNCHANGED <<now, activityLogs, blockchain, created, edits, sub,
                   existing, errors>>
    /\ UNCHANGED otherVars
    /\ UNCHANGED uiVars

\* err => console.log(...): the listener is cancelled and nothing subscribes
\* again.
onSnapshotError ==
    /\ sub = "listening"
    /\ sub' = "error"
    /\ UNCHANGED <<now, activityLogs, blockchain, created, edits, existing,
                   lastSnapshot, tasks, errors>>
    /\ UNCHANGED otherVars
    /\ UNCHANGED uiVars

\* The query returns: previousHash, Date.now() and the hash are taken and
\* the add is issued.
ReadDone(i) ==
    /\ tasks[i].pc = "reading"
    /\ LET lastBlockDocs == lastBlockQuery(blockchain)
           previousHash == previousHashOf(lastBlockDocs)
       IN  tasks' = [tasks EXCEPT
              ![i].pc = "adding",
              ![i].block = <<newBlock(now, tasks[i].activity, previousHash)>>,
              ![i].seen = Len(blockchain),
              ![i].tip = IF lastBlockDocs = <<>> THEN 0
                         ELSE lastBlockDocs[1].id]
    /\ UNCHANGED <<now, activityLogs, blockchain, created, edits, sub,
                   existing, lastSnapshot, errors>>
    /\ UNCHANGED otherVars
    /\ UNCHANGED uiVars

ReadFail(i) ==
    /\ tasks[i].pc = "reading"
    /\ tasks' = [tasks EXCEPT ![i] = catchError(tasks[i])]
    /\ errors' = errors + 1
    /\ UNCHANGED <<now, activityLogs, blockchain, created, edits, sub,
                   existing, lastSnapshot>>
    /\ UNCHANGED otherVars
    /\ UNCHANGED uiVars

AddDone(i) ==
    /\ tasks[i].pc = "adding"
    /\ LET data == tasks[i].block[1]
           id == Len(blockchain) + 1
       IN  /\ \E p \in AddPositions(blockchain, data.timestamp) :
                blockchain' = add(blockchain, id, data, p)
           /\ tasks' = [tasks EXCEPT ![i].pc = "done", ![i].block = <<>>,
                                     ![i].blockId = id]
    /\ UNCHANGED <<now, activityLogs, created, edits, sub, existing,
                   lastSnapshot, errors>>
    /\ UNCHANGED otherVars
    /\ UNCHANGED uiVars

AddFail(i) ==
    /\ tasks[i].pc = "adding"
    /\ tasks' = [tasks EXCEPT ![i] = catchError(tasks[i])]
    /\ errors' = errors + 1
    /\ UNCHANGED <<now, activityLogs, blockchain, created, edits, sub,
                   existing, lastSnapshot>>
    /\ UNCHANGED otherVars
    /\ UNCHANGED uiVars

----
\* The --clear run: clearCollection and the main script.  clearCollection
\* reads no document data, so the documents of a --clear run are kept by
\* reference alone: [id].

PageSize == 500

Collections == {"blockchain", "activityLogs"}

Coll(c) == IF c = "blockchain" THEN blockchain ELSE activityLogs

\* collectionRef.limit(500).get(): the first documents in name order.
limitGet(coll) ==
    SubSeq(coll, 1, IF Len(coll) < PageSize THEN Len(coll) ELSE PageSize)

\* A faulty variant: no snapshot counts as empty.
snapshotEmpty_never(snapshot) == FALSE

\* if (snapshot.empty)
snapshotEmpty(snapshot) == snapshot = <<>>

\* A faulty variant: every page that held a document is followed by
\* another fetch.
recurse_always(snapshot) == TRUE

\* A faulty variant: one page only.
recurse_never(snapshot) == FALSE

\* if (snapshot.size === 500)
recurse(snapshot) == Len(snapshot) = PageSize

\* A faulty variant: the commit deletes nothing.
batchDelete_none(coll, snapshot) == coll

\* batch.commit() of the deletes of the snapshot's documents.
batchDelete(coll, snapshot) ==
    LET deleted == Ids(snapshot)
    IN  SelectSeq(coll, LAMBDA d : d.id \notin deleted)

\* A faulty variant: settled is as good as fulfilled.
PromiseAll_settled(ps) ==
    IF \A c \in DOMAIN ps : ps[c].pc \in {"returned", "rejected"}
    THEN "fulfilled" ELSE "pending"

\* Promise.all: rejected as soon as one promise is, fulfilled when all are.
PromiseAll(ps) ==
    IF \E c \in DOMAIN ps : ps[c].pc = "rejected" THEN "rejected"
    ELSE IF \A c \in DOMAIN ps : ps[c].pc = "returned" THEN "fulfilled"
    ELSE "pending"

\* No clearCollection has been called.
idle == [pc |-> "idle", snapshot |-> <<>>, atCall |-> 0, fetches |-> 0,
         batches |-> <<>>, batched |-> {}, log |-> <<>>]

\* clearCollection up to its first await: the first page is asked for.
\* atCall (the number of documents at the call), fetches (the number of
\* pages asked for), batches (the sizes of the batches committed), batched
\* (the ids of the documents put in a batch) and log (the console.log
\* lines) record what the invocation did.
clearCollection(c) ==
    [pc |-> "fetching", snapshot |-> <<>>, atCall |-> Len(Coll(c)),
     fetches |-> 1, batches |-> <<>>, batched |-> {}, log |-> <<>>]

mainClear ==
    /\ sub = "none"
    /\ runs < MaxRuns
    /\ runs = 0 \/ exitCode = <<0>>
    /\ clr' = [c \in Collections |-> clearCollection(c)]
    /\ exitCode' = <<>>
    /\ runs' = runs + 1
    /\ UNCHANGED <<now, activityLogs, blockchain, created, edits, sub,
                   existing, lastSnapshot, tasks, errors, tampered, result>>
    /\ UNCHANGED uiVars

\* The page arrives: either the collection is reported empty and the
\* invocation returns, or the batch of deletes is committed.
FetchDone(c) ==
    /\ exitCode = <<>>
    /\ clr[c].pc = "fetching"
    /\ LET snapshot == limitGet(Coll(c))
       IN  clr' = [clr EXCEPT ![c] =
              IF snapshotEmpty(snapshot)
              THEN [@ EXCEPT !.pc = "returned",
                             !.log = Append(@, <<"already empty">>)]
              ELSE [@ EXCEPT !.pc = "committing", !.snapshot = snapshot,
                             !.batched = @ \cup Ids(snapshot)]]
    /\ UNCHANGED <<now, activityLogs, blockchain, created, edits, sub,
                   existing, lastSnapshot, tasks, errors, exitCode, runs,
                   tampered, result>>
    /\ UNCHANGED uiVars

FetchFail(c) ==
    /\ exitCode = <<>>
    /\ clr[c].pc = "fetching"
    /\ clr' = [clr EXCEPT ![c].pc = "rejected"]
    /\ UNCHANGED <<now, activityLogs, blockchain, created, edits, sub,
                   existing, lastSnapshot, tasks, errors, exitCode, runs,
                   tampered, result>>
    /\ UNCHANGED uiVars

\* The commit returns: the documents are gone, the count is logged and a
\* full page makes the function call itself.
CommitDone(c) ==
    /\ exitCode = <<>>
    /\ clr[c].pc = "committing"
    /\ LET snapshot == clr[c].snapshot
           size == Len(snapshot)
       IN  /\ IF c = "blockchain"
              THEN /\ blockchain' = batchDelete(blockchain, snapshot)
                   /\ UNCHANGED activityLogs
              ELSE /\ activityLogs' = batchDelete(activityLogs, snapshot)
                   /\ UNCHANGED blockchain
           /\ clr' = [clr EXCEPT ![c] =
                [@ EXCEPT !.pc = IF recurse(snapshot) THEN "fetching"
                                 ELSE "returned",
                          !.snapshot = <<>>,
                          !.fetches = IF recurse(snapshot) THEN @ + 1 ELSE @,
                          !.batches = Append(@, size),
                          !.log = Append(@, <<"cleared", ToString(size)>>)]]
    /\ UNCHANGED <<now, created, edits, sub, existing, lastSnapshot, tasks,
                   errors, exitCode, runs, tampered, result>>
    /\ UNCHANGED uiVars

CommitFail(c) ==
    /\ exitCode = <<>>
    /\ clr[c].pc = "committing"
    /\ clr' = [clr EXCEPT ![c].pc = "rejected", ![c].snapshot = <<>>]
    /\ UNCHANGED <<now, activityLogs, blockchain, created, edits, sub,
                   existing, lastSnapshot, tasks, errors, exitCode, runs,
                   tampered, result>>
    /\ UNCHANGED uiVars

\* .then(() => process.exit(0)).catch(error => process.exit(1))
exit ==
    /\ exitCode = <<>>
    /\ PromiseAll(clr) # "pending"
    /\ exitCode' = IF PromiseAll(clr) = "fulfilled" THEN <<0>> ELSE <<1>>
    /\ UNCHANGED <<now, activityLogs, blockchain, created, edits, sub,
                   existing, lastSnapshot, tasks, errors, clr, runs,
                   tampered, result>>
    /\ UNCHANGED uiVars

----
\* The chain verifier (ChainVerifier of the design) and the chains it is
\* given: the blockchain collection listed by ascending timestamp, as the
\* program wrote it or with one block of the listed sequence altered where
\* it stands.  Indices in a result count from 0.

Valid == [valid |-> TRUE]

Invalid(atIndex, reason) ==
    [valid |-> FALSE, atIndex |-> atIndex, reason |-> reason]

\* The digest recomputed by the serialization and digest step of the
\* linker.
recompute(b) == newBlock(b.timestamp, b.activity, b.previousHash).hash

\* The hash the block at place k has to name: that of the block before it,
\* the sentinel for the first.
priorHash(chain, k) == IF k = 1 THEN Sentinel ELSE chain[k - 1].data.hash

\* A faulty variant: linkage is not looked at.
violation_hashOnly(chain, k) ==
    IF chain[k].data.hash # recompute(chain[k].data) THEN "HashMismatch"
    ELSE "none"

\* A faulty variant: linkage is looked at before the hash.
violation_linkFirst(chain, k) ==
    IF chain[k].data.previousHash # priorHash(chain, k)
    THEN "LinkageMismatch"
    ELSE IF chain[k].data.hash # recompute(chain[k].data) THEN "HashMismatch"
    ELSE "none"

\* What is wrong with the block at place k: its hash is compared first,
\* its previousHash second.
violation(chain, k) ==
    IF chain[k].data.hash # recompute(chain[k].data) THEN "HashMismatch"
    ELSE IF chain[k].data.previousHash # priorHash(chain, k)
    THEN "LinkageMismatch"
    ELSE "none"

\* A faulty variant: the scan goes on and the last violation is reported.
verify_last(chain) ==
    IF chain = <<>> THEN Valid
    ELSE LET bad == {k \in DOMAIN chain : violation(chain, k) # "none"}
             last == CHOOSE k \in bad : \A j \in bad : k >= j
         IN  IF bad = {} THEN Valid
             ELSE Invalid(last - 1, violation(chain, last))

\* A faulty variant: the empty chain is rejected.
verify_rejectEmpty(chain) ==
    IF chain = <<>> THEN Invalid(0, "EmptyChain")
    ELSE LET bad == {k \in DOMAIN chain : violation(chain, k) # "none"}
             first == CHOOSE k \in bad : \A j \in bad : k <= j
         IN  IF bad = {} THEN Valid
             ELSE Invalid(first - 1, violation(chain, first))

\* The scan in ascending order, stopped at the first violation.
verify(chain) ==
    IF chain = <<>> THEN Valid
    ELSE LET bad == {k \in DOMAIN chain : violation(chain, k) # "none"}
             first == CHOOSE k \in bad : \A j \in bad : k <= j
         IN  IF bad = {} THEN Valid
             ELSE Invalid(first - 1, violation(chain, first))

\* Values a hash field can be given.
Hashes(chain) ==
    {Sentinel, SHA256(<<"x">>)} \cup {chain[i].data.hash : i \in DOMAIN chain}

\* The block b with one field given another value; "relinked" is b with
\* another previousHash and the hash that goes with it.
Mutations(chain, b) ==
    LET all ==
          {[field |-> "timestamp", data |-> [b EXCEPT !.timestamp = t]] :
              t \in 0..(MaxClock + 1)}
          \cup {[field |-> "activity.timestamp",
                 data |-> [b EXCEPT !.activity.timestamp = t]] :
              t \in 0..(MaxClock + 1)}
          \cup {[field |-> "activity.fileName",
                 data |-> [b EXCEPT !.activity.fileName = f]] :
              f \in Files \cup {Renamed}}
          \cup {[field |-> "activity.action",
                 data |-> [b EXCEPT !.activity.action = a]] :
              a \in {UPLOAD, DELETE}}
          \cup {[field |-> "activity.userId",
                 data |-> [b EXCEPT !.activity.userId = u]] :
              u \in Users \cup {"u2"}}
          \cup {[field |-> "previousHash",
                 data |-> [b EXCEPT !.previousHash = h]] : h \in Hashes(chain)}
          \cup {[field |-> "hash", data |-> [b EXCEPT !.hash = h]] :
              h \in Hashes(chain)}
          \cup {[field |-> "relinked",
                 data |-> newBlock(b.timestamp, b.activity, h)] :
              h \in Hashes(chain)}
    IN  {m \in all : m.data # b}

\* One createNewBlock invocation run from its query to its add with no
\* other invocation in between.
Link ==
    /\ tampered = <<>>
    /\ Len(blockchain) < MaxChain
    /\ \E user \in Users, fileName \in Files :
         \E activity \in {uploadLog(user, fileName),
                          deleteLog(user, fileName)} :
           LET previousHash == previousHashOf(lastBlockQuery(blockchain))
               data == newBlock(now, activity, previousHash)
           IN  \E p \in AddPositions(blockchain, data.timestamp) :
                 blockchain' = add(blockchain, Len(blockchain) + 1, data, p)
    /\ result' = <<>>
    /\ UNCHANGED <<now, activityLogs, created, edits, sub, existing,
                   lastSnapshot, tasks, errors, clr, exitCode, runs,
                   tampered>>
    /\ UNCHANGED uiVars

\* A block of the listed chain is altered where it stands; before records
\* what the chain verified as.
Tamper ==
    /\ tampered = <<>>
    /\ \E i \in DOMAIN blockchain :
         \E m \in Mutations(blockchain, blockchain[i].data) :
           /\ blockchain' = [blockchain EXCEPT ![i].data = m.data]
           /\ tampered' = <<[index |-> i - 1, field |-> m.field,
                             before |-> verify(blockchain)]>>
    /\ result' = <<>>
    /\ UNCHANGED <<now, activityLogs, created, edits, sub, existing,
                   lastSnapshot, tasks, errors, clr, exitCode, runs>>
    /\ UNCHANGED uiVars

Verify ==
    /\ result = <<>>
    /\ result' = <<verify(blockchain)>>
    /\ UNCHANGED <<now, activityLogs, blockchain, created, edits, sub,
                   existing, lastSnapshot, tasks, errors, clr, exitCode,
                   runs, tampered>>
    /\ UNCHANGED uiVars

----
\* The web page: the dashboard's blockchain listener and the
\* BlockchainViewer it hands its state to.

\* { id: doc.id, ...doc.data() }
docView(doc) ==
    [id |-> doc.id, timestamp |-> doc.data.timestamp,
     activity |-> doc.data.activity, previousHash |-> doc.data.previousHash,
     hash |-> doc.data.hash]

\* The query orderBy("timestamp", "asc") answers with the documents of the
\* collection in that order.
blockchainListener ==
    /\ blockchainState' = [i \in DOMAIN blockchain |-> docView(blockchain[i])]
    /\ blockchainState' # blockchainState
    /\ UNCHANGED <<now, activityLogs, blockchain, created, edits, sub,
                   existing, lastSnapshot, tasks, errors, theme, localStorage,
                   dataTheme, effect, clicks>>
    /\ UNCHANGED otherVars

genesisBlock ==
    [hash |-> <<"0000000000000000000000000000000000000000000000000000000000000000">>,
     previousHash |-> Sentinel,
     timestamp |-> 0,
     activity |-> [action |-> "GENESIS_BLOCK", userEmail |-> "System",
                   fileName |-> "The first block in the chain."]]

\* A faulty variant: the genesis block is always shown first.
displayChain_withGenesis(chain) == <<genesisBlock>> \o chain

\* const displayChain = chain.length > 0 ? chain : [genesisBlock];
displayChain(chain) == IF Len(chain) > 0 THEN chain ELSE <<genesisBlock>>

----
\* ThemeToggle (frontend/src/ThemeToggle.js).  A value that may be missing
\* is <<>> or <<v>>: the state theme before the component is mounted, the
\* localStorage entry "theme", the attribute data-theme.

\* localStorage.getItem("theme") || "dark": null and "" are falsy.
initialTheme(item) ==
    IF item = <<>> \/ item = <<"">> THEN <<"dark">> ELSE item

\* A faulty variant: "light" becomes "dark" and any other value "light".
nextTheme_lightFirst(t) == IF t = "light" THEN "dark" ELSE "light"

\* theme === "dark" ? "light" : "dark"
nextTheme(t) == IF t = "dark" THEN "light" ELSE "dark"

\* The component is rendered for the first time; its effect is due.
mount ==
    /\ theme = <<>>
    /\ theme' = initialTheme(localStorage)
    /\ effect' = TRUE
    /\ UNCHANGED <<now, activityLogs, blockchain, created, edits, sub,
                   existing, lastSnapshot, tasks, errors, blockchainState,
                   localStorage, dataTheme, clicks>>
    /\ UNCHANGED otherVars

\* useEffect(..., [theme])
useEffect ==
    /\ effect
    /\ dataTheme' = theme
    /\ localStorage' = theme
    /\ effect' = FALSE
    /\ UNCHANGED <<now, activityLogs, blockchain, created, edits, sub,
                   existing, lastSnapshot, tasks, errors, blockchainState,
                   theme, clicks>>
    /\ UNCHANGED otherVars

\* onClick: setTheme and the render that follows; an effect still due from
\* the render before is run first.
onClick ==
    /\ theme # <<>>
    /\ clicks < MaxClicks
    /\ theme' = <<nextTheme(theme[1])>>
    /\ dataTheme' = IF effect THEN theme ELSE dataTheme
    /\ localStorage' = IF effect THEN theme ELSE localStorage
    /\ effect' = TRUE
    /\ clicks' = clicks + 1
    /\ UNCHANGED <<now, activityLogs, blockchain, created, edits, sub,
                   existing, lastSnapshot, tasks, errors, blockchainState>>
    /\ UNCHANGED otherVars

\* The component is taken off the page; what it wrote stays.
unmount ==
    /\ theme # <<>>
    /\ ~effect
    /\ theme' = <<>>
    /\ UNCHANGED <<now, activityLogs, blockchain, created, edits, sub,
                   existing, lastSnapshot, tasks, errors, blockchainState,
                   localStorage, dataTheme, effect, clicks>>
    /\ UNCHANGED otherVars

----
Init ==
    /\ now = 0
    /\ activityLogs = <<>>
    /\ blockchain = <<>>
    /\ created = 0
    /\ edits = 0
    /\ sub = "none"
    /\ existing = {}
    /\ lastSnapshot = <<>>
    /\ tasks = <<>>
    /\ errors = 0
    /\ clr = [c \in Collections |-> idle]
    /\ exitCode = <<>>
    /\ runs = 0
    /\ tampered = <<>>
    /\ result = <<>>
    /\ blockchainState = <<>>
    /\ theme = <<>>
    /\ localStorage = <<>>
    /\ dataTheme = <<>>
    /\ effect = FALSE
    /\ clicks = 0

Reply ==
    \E i \in DOMAIN tasks :
        ReadDone(i) \/ ReadFail(i) \/ AddDone(i) \/ AddFail(i)

Next ==
    \/ handleUpload
    \/ handleDelete
    \/ ModifyActivity
    \/ RemoveActivity
    \/ Tick
    \/ main
    \/ onSnapshot
    \/ onSnapshotError
    \/ Reply

Spec == Init /\ [][Next]_vars

\* The event loop runs every callback whose event has arrived.
FairSpec ==
    Spec /\ WF_vars(main) /\ WF_vars(onSnapshot) /\ WF_vars(Reply)

\* The script run with --clear, on collections of any size that nothing
\* else writes to; it may be run again once a run has exited with 0.
Remainders == {0, 1, 200}

Sizes == {q * PageSize + r : q \in 0..MaxPages, r \in Remainders}

Refs(n) == [i \in 1..n |-> [id |-> i]]

ClearInit ==
    /\ now = 0
    /\ \E n \in Sizes : activityLogs = Refs(n)
    /\ \E n \in Sizes : blockchain = Refs(n)
    /\ created = 0
    /\ edits = 0
    /\ sub = "none"
    /\ existing = {}
    /\ lastSnapshot = <<>>
    /\ tasks = <<>>
    /\ errors = 0
    /\ clr = [c \in Collections |-> idle]
    /\ exitCode = <<>>
    /\ runs = 0
    /\ tampered = <<>>
    /\ result = <<>>
    /\ blockchainState = <<>>
    /\ theme = <<>>
    /\ localStorage = <<>>
    /\ dataTheme = <<>>
    /\ effect = FALSE
    /\ clicks = 0

ClearReply ==
    \E c \in Collections :
        FetchDone(c) \/ FetchFail(c) \/ CommitDone(c) \/ CommitFail(c)

ClearNext == mainClear \/ ClearReply \/ exit

ClearSpec == ClearInit /\ [][ClearNext]_vars

\* Every pending fetch or commit settles and the event loop runs the
\* callbacks of the settled promises.
ClearFairSpec == ClearSpec /\ WF_vars(ClearReply) /\ WF_vars(exit)

----
\* Properties.

Pc(i) == tasks[i].pc

Done == {i \in DOMAIN tasks : Pc(i) = "done"}

Failed == {i \in DOMAIN tasks : Pc(i) = "failed"}

HashOfTip(tip) ==
    IF tip = 0 THEN Sentinel ELSE DocOf(blockchain, tip).data.hash

\* Each block names its predecessor in ascending-timestamp order, and the
\* first names the sentinel.
Linked(chain) ==
    \A i \in DOMAIN chain :
        chain[i].data.previousHash =
            IF i = 1 THEN Sentinel ELSE chain[i - 1].data.hash

HashMatches(b) ==
    b.hash = SHA256(JSONstringify([timestamp |-> b.timestamp,
                                   activity |-> b.activity,
                                   previousHash |-> b.previousHash]))

\* The two linkings overlapped: neither read the collection after the other
\* had added its block.
Overlapped(i, j) ==
    /\ tasks[j].blockId > tasks[i].seen
    /\ tasks[i].blockId > tasks[j].seen

\* C1: when the watcher subscribed on empty collections, once every linking
\* of the delivered events has completed with all its reads and appends
\* succeeding, the collection holds one block per event and
\* the chain listed by ascending timestamp is valid: every stored hash is the
\* digest of its block, the first block names "0" and every other block names
\* the hash of the block before it.
C1_ChainValidOnceLinked ==
    (existing = {} /\ tasks # <<>> /\ \A i \in DOMAIN tasks : Pc(i) = "done") =>
        /\ Len(blockchain) = Len(tasks)
        /\ \A i \in DOMAIN blockchain : HashMatches(blockchain[i].data)
        /\ Linked(blockchain)

\* C2: every stored block has its four fields and its stored hash is the
\* digest of the serialisation of its own timestamp, activity and
\* previousHash.
C2_StoredBlocksHashed ==
    \A i \in DOMAIN blockchain :
        /\ DOMAIN blockchain[i].data =
               {"timestamp", "activity", "previousHash", "hash"}
        /\ HashMatches(blockchain[i].data)

\* A block is stored while another linking has failed and the subscription
\* has ended.
C2_Witness ==
    /\ blockchain # <<>>
    /\ Failed # {}
    /\ sub = "error"

\* C3: at most one createNewBlock invocation has read the latest block and
\* not yet completed its append.
C3_OneLinkingAtATime ==
    Cardinality({i \in DOMAIN tasks : Pc(i) = "adding"}) <= 1

\* C4: no block is created by the subscription for an activity document that
\* was already in activityLogs when the watcher subscribed.
C4_ExistingNotChained ==
    \A i \in DOMAIN tasks : tasks[i].ev \in existing => tasks[i].blockId = 0

\* C5: two linkings that overlapped and read the same latest block (or both
\* none) and whose appends completed both have their block in the collection,
\* each naming the hash of the block it read, so the two share a previousHash.
C5_ForkAccepted ==
    \A i, j \in Done :
        (i # j /\ Overlapped(i, j) /\ tasks[i].tip = tasks[j].tip) =>
            /\ {tasks[i].blockId, tasks[j].blockId} \subseteq Ids(blockchain)
            /\ tasks[i].blockId # tasks[j].blockId
            /\ DocOf(blockchain, tasks[i].blockId).data.previousHash =
                   HashOfTip(tasks[i].tip)
            /\ DocOf(blockchain, tasks[j].blockId).data.previousHash =
                   DocOf(blockchain, tasks[i].blockId).data.previousHash

C5_Witness ==
    \E i, j \in Done :
        /\ i # j
        /\ Overlapped(i, j)
        /\ tasks[i].tip = tasks[j].tip
        /\ Len(blockchain) = 2

\* C6: a linking starts only for a document the snapshot reports as added,
\* with that document's data; no two linkings are for the same event; the
\* blocks of the collection are exactly the blocks of the linkings whose
\* append completed, one each, embedding the linking's activity; a linking
\* that failed or has not completed has no block.
C6_ExactlyOncePerEvent ==
    [][/\ \A k \in (Len(tasks) + 1)..Len(tasks') :
            /\ tasks'[k].ev \in Ids(lastSnapshot') \ Ids(lastSnapshot)
            /\ tasks'[k].activity = DocOf(lastSnapshot', tasks'[k].ev).data
       /\ \A i, j \in DOMAIN tasks' :
            tasks'[i].ev = tasks'[j].ev => i = j
       /\ \A b \in DOMAIN blockchain' :
            \E i \in DOMAIN tasks' :
                /\ tasks'[i].pc = "done"
                /\ tasks'[i].blockId = blockchain'[b].id
                /\ tasks'[i].activity = blockchain'[b].data.activity
                /\ \A j \in DOMAIN tasks' :
                       tasks'[j].blockId = blockchain'[b].id => j = i
       /\ \A i \in DOMAIN tasks' :
            IF tasks'[i].pc = "done"
            THEN tasks'[i].blockId \in Ids(blockchain')
            ELSE tasks'[i].blockId = 0
       /\ Len(blockchain') =
              Cardinality({i \in DOMAIN tasks' : tasks'[i].pc = "done"})
      ]_vars

\* One event has its block and another, whose linking failed, has none.
C6_Witness ==
    /\ Done # {}
    /\ Failed # {}
    /\ Len(blockchain) = 1

\* C7: a failed read or append logs one error and ends that linking as
\* failed without changing the blockchain collection or any other linking;
\* a failed linking never runs again, has no block, and no other linking is
\* started for its event.
C7_FailedDropped ==
    [][/\ errors' # errors =>
            /\ errors' = errors + 1
            /\ blockchain' = blockchain
            /\ Len(tasks') = Len(tasks)
            /\ \E i \in DOMAIN tasks :
                 /\ tasks[i].pc \in {"reading", "adding"}
                 /\ tasks'[i].pc = "failed"
                 /\ \A j \in DOMAIN tasks : j # i => tasks'[j] = tasks[j]
       /\ \A i \in DOMAIN tasks :
            /\ (tasks[i].pc # "failed" /\ tasks'[i].pc = "failed") =>
                   errors' = errors + 1
            /\ tasks[i].pc = "failed" => tasks'[i] = tasks[i]
       /\ \A i \in DOMAIN tasks' :
            tasks'[i].pc = "failed" =>
                /\ tasks'[i].blockId = 0
                /\ \A j \in DOMAIN tasks' :
                       tasks'[j].ev = tasks'[i].ev => j = i
      ]_vars

\* A linking has failed, every linking has ended and a later event has been
\* chained.
C7_Witness ==
    \E i \in Failed :
        /\ \A j \in DOMAIN tasks : Pc(j) \in {"done", "failed"}
        /\ \E j \in Done : j > i

\* C8: the first block in ascending-timestamp order names the sentinel "0",
\* and a block names "0" only when its linking's read found the collection
\* empty.
C8_GenesisFirst ==
    /\ blockchain # <<>> => blockchain[1].data.previousHash = Sentinel
    /\ \A i \in Done :
         DocOf(blockchain, tasks[i].blockId).data.previousHash = Sentinel =>
             tasks[i].seen = 0

\* C9: a snapshot starts exactly one linking per document it reports as
\* added, in state "reading", and nothing else does; a snapshot that reports
\* only modified or removed documents starts none; delivering a snapshot
\* leaves the blockchain collection and the running linkings unchanged.
C9_OnlyAddedTriggers ==
    [][LET newIds == Ids(lastSnapshot') \ Ids(lastSnapshot)
       IN  /\ Len(tasks') >= Len(tasks)
           /\ Len(tasks') > Len(tasks) => lastSnapshot' # lastSnapshot
           /\ lastSnapshot' # lastSnapshot =>
                /\ Len(tasks') = Len(tasks) + Cardinality(newIds)
                /\ SubSeq(tasks', 1, Len(tasks)) = tasks
                /\ {tasks'[k].ev : k \in (Len(tasks) + 1)..Len(tasks')}
                       = newIds
                /\ blockchain' = blockchain
      ]_vars

\* The listener has been shown the modified version of a document whose
\* linking was started with the version that was added.
C9_Witness ==
    \E i \in DOMAIN tasks :
        /\ tasks[i].ev \in Ids(lastSnapshot)
        /\ DocOf(lastSnapshot, tasks[i].ev).data # tasks[i].activity
        /\ Len(tasks) = 1

\* C10: after the feed reports a subscription error the watcher eventually
\* subscribes again.
C10_Resubscribes == (sub = "error") ~> (sub = "listening")

\* The activity log as the dashboard's listener can find it: uploads and
\* deletes of any of the file names, each stamped by the clock of the
\* client that wrote it.
LogFiles == Files \cup {Renamed}

LogActivity(data) ==
    /\ Len(activityLogs) < MaxLog
    /\ \E t \in 0..MaxClock :
         activityLogs' = Append(activityLogs,
                                [id |-> created + 1,
                                 data |-> [data EXCEPT !.timestamp = t]])
    /\ created' = created + 1
    /\ UNCHANGED <<now, blockchain, edits, sub, existing, lastSnapshot,
                   tasks, errors>>
    /\ UNCHANGED otherVars
    /\ UNCHANGED uiVars

LogUpload ==
    \E user \in Users, fileName \in LogFiles :
        LogActivity(uploadLog(user, fileName))

LogDelete ==
    \E user \in Users, fileName \in LogFiles :
        LogActivity(deleteLog(user, fileName))

FilesNext == LogUpload \/ LogDelete

FilesSpec == Init /\ [][FilesNext]_vars

\* The theme toggle in a browser whose localStorage holds no entry
\* "theme" or any string, and whose document has any data-theme or none.
StoredThemes == {"dark", "light", "blue", ""}

ThemeInit ==
    /\ now = 0
    /\ activityLogs = <<>>
    /\ blockchain = <<>>
    /\ created = 0
    /\ edits = 0
    /\ sub = "none"
    /\ existing = {}
    /\ lastSnapshot = <<>>
    /\ tasks = <<>>
    /\ errors = 0
    /\ clr = [c \in Collections |-> idle]
    /\ exitCode = <<>>
    /\ runs = 0
    /\ tampered = <<>>
    /\ result = <<>>
    /\ blockchainState = <<>>
    /\ theme = <<>>
    /\ localStorage \in {<<>>} \cup {<<v>> : v \in StoredThemes}
    /\ dataTheme \in {<<>>} \cup {<<v>> : v \in StoredThemes}
    /\ effect = FALSE
    /\ clicks = 0

ThemeNext == mount \/ useEffect \/ onClick \/ unmount

ThemeSpec == ThemeInit /\ [][ThemeNext]_vars

\* The dashboard listening to a blockchain collection that grows by one
\* linking after another.
ViewerNext == Link \/ Tick \/ blockchainListener

ViewerSpec == Init /\ [][ViewerNext]_vars

\* Chains linked one block at a time, altered in at most one block, and
\* verified.
VerifyNext == Link \/ Tick \/ Tamper \/ Verify

VerifySpec == Init /\ [][VerifyNext]_vars

----
\* Properties of the --clear run.

Returned(c) == clr[c].pc = "returned"

\* The batch sizes of a collection of n documents: the full pages, then
\* the rest if there is one.
PageOps(n) ==
    [i \in 1..(n \div PageSize) |-> PageSize]
    \o (IF n % PageSize > 0 THEN <<n % PageSize>> ELSE <<>>)

\* C11: when clearCollection returns on a collection that held N documents
\* and that nothing else writes to, it has committed batch deletes of sizes
\* 500, ..., 500, N mod 500 in that order (500, 500, 200 for N = 1200) and
\* the collection is empty; a call that follows a completed run finds no
\* documents and commits nothing.
C11_PagesThenEmpty ==
    /\ \A c \in Collections :
         Returned(c) =>
            /\ Coll(c) = <<>>
            /\ clr[c].batches = PageOps(clr[c].atCall)
    /\ exitCode = <<0>> => \A c \in Collections : Coll(c) = <<>>
    /\ \A c \in Collections :
         (runs > 1 /\ clr[c].atCall = 0) => clr[c].batches = <<>>

C11_Witness ==
    /\ Returned("blockchain")
    /\ clr["blockchain"].atCall = 1200
    /\ clr["blockchain"].batches = <<500, 500, 200>>

\* C12: clearCollection called on a collection without documents commits
\* no batch delete, leaves the collection as it is and logs that it is
\* already empty, never a count of documents cleared.
C12_EmptyIsNoOp ==
    \A c \in Collections :
        (clr[c].pc # "idle" /\ clr[c].atCall = 0) =>
            /\ clr[c].pc \in {"fetching", "returned", "rejected"}
            /\ clr[c].batches = <<>>
            /\ Coll(c) = <<>>
            /\ clr[c].log \in {<<>>, << <<"already empty">> >>}
            /\ Returned(c) => clr[c].log = << <<"already empty">> >>

C12_Witness ==
    /\ Returned("activityLogs")
    /\ clr["activityLogs"].atCall = 0
    /\ runs = 1

\* C13: the --clear run exits 0 only when both clearCollection calls have
\* returned, none of their page fetches or commits having failed, and once
\* one of them has failed the only exit is with code 1.
C13_ExitCode ==
    /\ exitCode = <<0>> => \A c \in Collections : Returned(c)
    /\ (\E c \in Collections : clr[c].pc = "rejected") => exitCode # <<0>>
    /\ exitCode = <<1>> => \E c \in Collections : clr[c].pc = "rejected"

C13_Witness ==
    /\ exitCode = <<0>>
    /\ runs = 1
    /\ clr["blockchain"].atCall = 1200
    /\ clr["activityLogs"].atCall = 501

----
\* Properties of the verifier.

Altered(field) == tampered # <<>> /\ tampered[1].field = field

WasValid == tampered # <<>> /\ tampered[1].before = Valid

C15_SwapIsLinkageMismatch ==
    (/\ result # <<>>
     /\ WasValid
     /\ Altered("previousHash")
     /\ tampered[1].index > 0) =>
        result[1] = Invalid(tampered[1].index, "LinkageMismatch")

\* C15 amended: when the previousHash of block i > 0 of a chain that
\* verified Valid is replaced by a value other than the hash of block i-1,
\* verify returns Invalid(i, HashMismatch), the hash of block i being
\* compared before its linkage; it returns Invalid(i, LinkageMismatch)
\* when the hash of block i is recomputed over the replaced previousHash
\* as well.
C15_SwapAmended ==
    (result # <<>> /\ WasValid /\ tampered[1].index > 0) =>
        /\ Altered("previousHash") =>
              result[1] = Invalid(tampered[1].index, "HashMismatch")
        /\ Altered("relinked") =>
              result[1] = Invalid(tampered[1].index, "LinkageMismatch")

C15_Witness ==
    /\ result # <<>>
    /\ WasValid
    /\ tampered[1].index = 1
    /\ Altered("relinked")
    /\ blockchain[2].data.previousHash = Sentinel

\* C16: verify of the empty chain is Valid, and no result names the reason
\* EmptyChain.
C16_EmptyChainValid ==
    result # <<>> =>
        /\ blockchain = <<>> => result[1] = Valid
        /\ result[1].valid \/ result[1].reason # "EmptyChain"

C16_Witness == result # <<>> /\ blockchain = <<>> /\ now = 1

----
\* Properties of the dashboard's file list.

\* The places in the log of the most recent event of a file: no other
\* event of the file has a later timestamp, or the same timestamp and a
\* later name.
MostRecent(fileName) ==
    {i \in DOMAIN activityLogs :
        /\ activityLogs[i].data.fileName = fileName
        /\ \A j \in DOMAIN activityLogs :
             activityLogs[j].data.fileName = fileName =>
                \/ activityLogs[j].data.timestamp
                     < activityLogs[i].data.timestamp
                \/ /\ activityLogs[j].data.timestamp
                        = activityLogs[i].data.timestamp
                   /\ j <= i}

Entries(fileName) ==
    {k \in DOMAIN files(activityLogs) :
        files(activityLogs)[k].name = fileName}

\* C17: the file list derived from the activity log has exactly one entry
\* for each file name whose most recent event is an upload and none for a
\* file name whose most recent event is a delete or that has no event; an
\* upload of a.txt followed by its delete gives the empty list.
C17_CurrentFiles ==
    /\ \A fileName \in LogFiles :
         Cardinality(Entries(fileName)) =
            IF \E i \in MostRecent(fileName) :
                   IsUpload(activityLogs[i].data.action)
            THEN 1 ELSE 0
    /\ \A k \in DOMAIN files(activityLogs) :
         files(activityLogs)[k].name \in LogFiles

C17_Witness ==
    /\ Len(activityLogs) = 2
    /\ activityLogs[1].data.action = UPLOAD
    /\ activityLogs[1].data.fileName = "a.txt"
    /\ activityLogs[1].data.timestamp = 0
    /\ activityLogs[2].data.action = DELETE
    /\ activityLogs[2].data.fileName = "a.txt"
    /\ activityLogs[2].data.timestamp = 1
    /\ files(activityLogs) = <<>>

----
\* Further properties of the watcher.

\* The linkings that have taken their block, and the block of each: the
\* one about to be added, or the one stored.
Taken == {i \in DOMAIN tasks : Pc(i) \in {"adding", "done"}}

BlockOf(i) ==
    IF Pc(i) = "adding" THEN tasks[i].block[1]
    ELSE DocOf(blockchain, tasks[i].blockId).data

\* C18: two linkings that took the same previousHash, the same activity
\* and the same timestamp have made the same block, hash included,
\* whatever the collections held and whatever was linked before; the hash
\* is the digest of the serialisation of these three fields, without the
\* field hash.
C18_HashOfInputsOnly ==
    /\ \A i, j \in Taken :
         (/\ BlockOf(i).previousHash = BlockOf(j).previousHash
          /\ BlockOf(i).activity = BlockOf(j).activity
          /\ BlockOf(i).timestamp = BlockOf(j).timestamp)
            => BlockOf(i) = BlockOf(j)
    /\ \A i \in Taken : HashMatches(BlockOf(i))

\* Two linkings of like activities took like inputs and stored two like
\* blocks.
C18_Witness ==
    \E i, j \in Done :
        /\ i # j
        /\ tasks[i].blockId # tasks[j].blockId
        /\ BlockOf(i) = BlockOf(j)

\* The hashes of the blocks of greatest timestamp in the collection.
LatestHashes ==
    {blockchain[k].data.hash : k \in
        {k \in DOMAIN blockchain :
            \A j \in DOMAIN blockchain :
                blockchain[j].data.timestamp <= blockchain[k].data.timestamp}}

\* C19: the previousHash a linking gives its block is the hash of a block
\* of greatest timestamp in the collection at the step its query is
\* answered, "0" if the collection is empty at that step; it is taken from
\* the collection at every linking.
C19_PreviousHashIsLatest ==
    [][\A i \in DOMAIN tasks :
          (Pc(i) = "reading" /\ tasks'[i].pc = "adding") =>
             /\ blockchain = <<>> =>
                   tasks'[i].block[1].previousHash = Sentinel
             /\ blockchain # <<>> =>
                   tasks'[i].block[1].previousHash \in LatestHashes]_vars

C19_Witness ==
    \E i \in DOMAIN tasks :
        /\ Pc(i) = "adding"
        /\ tasks[i].tip # 0
        /\ tasks[i].block[1].previousHash = HashOfTip(tasks[i].tip)
        /\ tasks[i].block[1].previousHash # Sentinel

\* C20: of two events added after the watcher subscribed and both
\* chained, the one delivered first has the block that was added first,
\* with a timestamp not greater than that of the other.
C20_ObservationOrder ==
    \A i, j \in Done :
        (i < j /\ tasks[i].ev \notin existing /\ tasks[j].ev \notin existing) =>
           /\ tasks[i].blockId < tasks[j].blockId
           /\ BlockOf(i).timestamp <= BlockOf(j).timestamp

Linking(i) == i \in DOMAIN tasks /\ Pc(i) \in {"reading", "adding"}

Ended(i) == i \in DOMAIN tasks /\ Pc(i) \in {"done", "failed"}

\* No linking is under way.
Idle == \A i \in DOMAIN tasks : ~Linking(i)

\* C21: the watcher is idle again and again, so that every linking ends,
\* its block added or its error logged, and stays ended; the step that
\* fails a linking leaves the subscription, the listener's snapshot and
\* every other linking as they are; and every activity document the
\* listener has been told of, before or after a failure, has its linking.
C21_LinkingEnds ==
    /\ []<>Idle
    /\ [][/\ errors' # errors =>
               /\ sub' = sub
               /\ lastSnapshot' = lastSnapshot
               /\ \E i \in DOMAIN tasks :
                    /\ tasks'[i].pc = "failed"
                    /\ \A j \in DOMAIN tasks : j # i => tasks'[j] = tasks[j]
          /\ \A i \in DOMAIN tasks : Ended(i) => tasks'[i] = tasks[i]]_vars
    /\ [](\A id \in Ids(lastSnapshot) :
            \E i \in DOMAIN tasks : tasks[i].ev = id)

\* A linking has failed and the linking of an event delivered after the
\* failure has added its block.
C21_Witness ==
    \E i, j \in DOMAIN tasks :
        /\ i < j
        /\ Pc(i) = "failed"
        /\ Pc(j) = "done"
        /\ tasks[j].seen = 0
        /\ sub = "listening"
        /\ errors = 1

----
\* A further property of the verifier.

\* The block at place k has the hash of its own content and names the
\* hash of the block before it, the sentinel at the first place.
Passes(k) ==
    /\ HashMatches(blockchain[k].data)
    /\ blockchain[k].data.previousHash =
          IF k = 1 THEN Sentinel ELSE blockchain[k - 1].data.hash

\* C22: when verify returns Invalid(i, reason), every block at an index
\* below i passes the hash check and the linkage check and the block at
\* index i does not: i is the least violating index.
C22_LeastViolatingIndex ==
    (result # <<>> /\ ~result[1].valid) =>
        /\ result[1].atIndex + 1 \in DOMAIN blockchain
        /\ \A k \in 1..result[1].atIndex : Passes(k)
        /\ ~Passes(result[1].atIndex + 1)

\* The block at index 1 of three is reported while the block at index 2
\* does not pass either.
C22_Witness ==
    /\ result # <<>>
    /\ ~result[1].valid
    /\ Len(blockchain) = 3
    /\ result[1].atIndex = 1
    /\ ~Passes(3)

----
\* Further properties of the --clear run.

\* C23: within the clear of one collection a page is asked for only when
\* the batch of the page before it has been committed, so that one more
\* page has been asked for than batches committed and no batch is open
\* while a fetch is pending; and no document is put in two batches.
C23_PagesInSequence ==
    /\ [](\A c \in Collections :
            /\ clr[c].pc = "fetching" =>
                  /\ clr[c].snapshot = <<>>
                  /\ clr[c].fetches = Len(clr[c].batches) + 1
            /\ clr[c].pc = "committing" =>
                  /\ clr[c].snapshot # <<>>
                  /\ clr[c].fetches = Len(clr[c].batches) + 1)
    /\ [][\A c \in Collections :
            (clr[c].pc = "fetching" /\ clr'[c].pc = "committing") =>
                /\ Ids(clr'[c].snapshot) \cap clr[c].batched = {}
                /\ Ids(clr'[c].snapshot) \subseteq Ids(Coll(c))]_vars

\* The third page of a collection is being deleted while the other
\* collection is still at its first.
C23_Witness ==
    /\ clr["blockchain"].pc = "committing"
    /\ Len(clr["blockchain"].batches) = 2
    /\ Cardinality(clr["blockchain"].batched) = 1200
    /\ clr["activityLogs"].fetches = 1

Pending(c) == clr[c].pc \in {"fetching", "committing"}

Settled(c) == clr[c].pc \in {"returned", "rejected"}

\* C24: a clearCollection call comes to an end for every number N of
\* documents (or the process has exited on the failure of the other call);
\* when it returns, no fetch or commit having failed, it has asked for the
\* N div 500 full pages and one page more, the first with fewer than 500
\* documents, empty when N is a multiple of 500; and once it has returned
\* it fetches and deletes nothing more.
C24_ClearTerminates ==
    /\ \A c \in Collections : Pending(c) ~> (Settled(c) \/ exitCode # <<>>)
    /\ [](\A c \in Collections :
            Returned(c) =>
               /\ clr[c].fetches = (clr[c].atCall \div PageSize) + 1
               /\ Len(clr[c].batches) =
                     clr[c].fetches
                       - (IF clr[c].atCall % PageSize = 0 THEN 1 ELSE 0))
    /\ [][\A c \in Collections :
            (Returned(c) /\ runs' = runs) =>
                /\ clr'[c] = clr[c]
                /\ Coll(c)' = Coll(c)]_vars

\* A collection of two full pages: the third page came back empty.
C24_Witness ==
    /\ Returned("activityLogs")
    /\ clr["activityLogs"].atCall = 1000
    /\ clr["activityLogs"].fetches = 3
    /\ clr["activityLogs"].batches = <<500, 500>>
    /\ exitCode = <<0>>

----
\* Further properties of the watcher.

\* The step is one of the watcher: it changes the subscription, the
\* listener's snapshot, a linking, the error log or the blockchain
\* collection.
WatcherStep ==
    <<sub, existing, lastSnapshot, tasks, errors, blockchain>>'
        # <<sub, existing, lastSnapshot, tasks, errors, blockchain>>

\* C25: in watcher mode every step keeps each stored block, with its field
\* values and in its order, so that the blockchain collection only grows,
\* by one block at most; and no step of the watcher changes the
\* activityLogs collection.
C25_AppendOnly ==
    [][/\ \A i \in DOMAIN blockchain :
            \E j \in DOMAIN blockchain' : blockchain'[j] = blockchain[i]
       /\ \A i, j \in DOMAIN blockchain :
            i < j =>
               \E k, l \in DOMAIN blockchain' :
                   /\ k < l
                   /\ blockchain'[k] = blockchain[i]
                   /\ blockchain'[l] = blockchain[j]
       /\ Len(blockchain') \in {Len(blockchain), Len(blockchain) + 1}
       /\ WatcherStep => activityLogs' = activityLogs]_vars

\* Two blocks are stored, the second added after the first was there, and
\* both activity documents are still in their collection.
C25_Witness ==
    /\ Len(blockchain) = 2
    /\ Len(activityLogs) = 2
    /\ \E i \in Done : tasks[i].seen = 1
    /\ now = 1

\* C26: when the linkings run one after another, the query for the block
\* of greatest timestamp returns the block added by the latest linking, and
\* no two stored blocks name the same previousHash, blocks made within one
\* clock tick included.
C26_TipIsLastAppended ==
    tampered = <<>> =>
        /\ blockchain # <<>> =>
              lastBlockQuery(blockchain)[1].id = Len(blockchain)
        /\ \A i, j \in DOMAIN blockchain :
              i # j =>
                 blockchain[i].data.previousHash
                    # blockchain[j].data.previousHash

----
\* Properties of the web page.

Shown == displayChain(blockchainState)

Mounted == theme # <<>>

\* The effect has run for the current theme: the entry and the attribute
\* both hold it.  Two clicks bring "dark" and "light" back.
ThemeInSync ==
    /\ (Mounted /\ ~effect) => (localStorage = theme /\ dataTheme = theme)
    /\ \A t \in {"dark", "light"} : nextTheme(nextTheme(t)) = t

\* A click makes "dark" "light" and any other value "dark", and leaves the
\* effect due.
ClickToggles ==
    clicks' # clicks =>
        /\ theme' = <<IF theme = <<"dark">> THEN "light" ELSE "dark">>
        /\ effect'

====
